---- MODULE Spec2Model ----
(***************************************************************************)
(* Steam Game Matchmaker: the matching functions of GameMatcher            *)
(* (frontend/js/matching.js), the friend roster of FriendsManager          *)
(* (frontend/js/friends.js) and the handlers of App that use them.         *)
(*                                                                         *)
(* JavaScript values are modelled as follows.                              *)
(*   - a string that the code inspects character by character (a game      *)
(*     name) is a sequence of one-character strings;                       *)
(*   - a string that the code only compares or copies (a display name, a   *)
(*     genre, a steamId) is a TLA+ string;                                 *)
(*   - an Array is a sequence; a Set or a Map, whose iteration order is    *)
(*     insertion order, is a sequence without repeated elements / keys     *)
(*     (FriendsManager.selected, whose order the code never observes, is   *)
(*     a set);                                                             *)
(*   - an object is a record; a property the object does not have is a     *)
(*     field the record does not have.                                     *)
(***************************************************************************)
EXTENDS Integers, Sequences, FiniteSets, TLC

\* ------------------------------------------------------------------------
\* Bounds of the model
\* ------------------------------------------------------------------------

\* Longest friend list handed to a matching function.
MaxFriends == 3

\* Most game records in the libraries of a friend list, all friends together.
MaxGames == 4

\* ------------------------------------------------------------------------
\* Sequences as JavaScript arrays, Sets and Maps
\* ------------------------------------------------------------------------

Range(s) == {s[i] : i \in 1..Len(s)}

\* Array.prototype.includes / Set.prototype.has on the sequence model.
Contains(s, x) == \E i \in 1..Len(s) : s[i] = x

\* Array.prototype.slice(0, n + 1): an off-by-one slip in the end index.
Slice0Plus(s, n) == SubSeq(s, 1, IF Len(s) < n + 1 THEN Len(s) ELSE n + 1)

\* Array.prototype.slice(0, n).
Slice0(s, n) == SubSeq(s, 1, IF Len(s) < n THEN Len(s) ELSE n)

\* new Set(array): the elements in order of first insertion.
RECURSIVE SetOf(_)
SetOf(s) ==
    IF s = <<>> THEN <<>>
    ELSE LET rest == SetOf(SubSeq(s, 1, Len(s) - 1))
             x == s[Len(s)]
         IN  IF Contains(rest, x) THEN rest ELSE Append(rest, x)

\* Array.prototype.find on a library: the first game with this appid, or
\* the empty sequence for undefined.
FindGame(games, appId) ==
    LET hits == {i \in 1..Len(games) : games[i].appid = appId}
    IN  IF hits = {} THEN <<>>
        ELSE <<games[CHOOSE i \in hits : \A j \in hits : i <= j]>>

\* new Map(games.map(g => [g.appid, g])).get(appId): a later entry with the
\* same key replaces the value of an earlier one.
MapGet(games, appId) ==
    LET hits == {i \in 1..Len(games) : games[i].appid = appId}
    IN  games[CHOOSE i \in hits : \A j \in hits : i >= j]

\* The JavaScript number NaN.  Every other number of the model is an integer
\* of small magnitude; NaN is represented by an integer none of them reaches.
NaN == -1000000

\* ToNumber(undefined) = NaN: the number read from a property that the
\* object obj may lack.
NumberOf(obj, key) == IF key \in DOMAIN obj THEN obj[key] ELSE NaN

\* a + b on numbers.
Plus(a, b) == IF a = NaN \/ b = NaN THEN NaN ELSE a + b

\* Math.floor(a / b): a slip for Math.round.
MathFloor(a, b) == a \div b

\* Math.round(a / b) for b > 0: the nearest integer, halves rounded up; NaN
\* for NaN.
MathRound(a, b) == IF a = NaN THEN NaN ELSE (2 * a + b) \div (2 * b)

\* The comparator (a, b) => key(b) - key(a) does not put a before b: the
\* difference is negative or zero, or NaN, which sort reads as zero.
NotBefore(keyA, keyB) == keyA = NaN \/ keyB = NaN \/ keyB >= keyA

\* The order in which a stable descending sort arranges the positions of a
\* sequence of keys: each position is inserted after the positions whose key
\* is greater or equal.  (With a NaN among three or more keys the comparator
\* is not consistent and the order is the implementation's; the model's
\* inputs have NaN keys only among two.)
RECURSIVE SortOrder(_)
SortOrder(keys) ==
    IF keys = <<>> THEN <<>>
    ELSE LET n == Len(keys)
             sorted == SortOrder(SubSeq(keys, 1, n - 1))
             k == Cardinality({i \in 1..Len(sorted) : NotBefore(keys[n], keys[sorted[i]])})
         IN  SubSeq(sorted, 1, k) \o <<n>> \o SubSeq(sorted, k + 1, Len(sorted))

\* Array.prototype.sort((a, b) => key(b) - key(a)): a stable sort (ECMAScript
\* 2019), descending by key; keys[i] is the key of s[i].
SortDesc(s, keys) ==
    LET order == SortOrder(keys)
    IN  [i \in 1..Len(s) |-> s[order[i]]]

\* Concatenation of a sequence of sequences (the order of nested forEach).
RECURSIVE Concat(_)
Concat(ss) == IF ss = <<>> THEN <<>> ELSE Head(ss) \o Concat(Tail(ss))

\* ------------------------------------------------------------------------
\* Strings the code looks into: sequences of characters
\* ------------------------------------------------------------------------

UpperCase == <<"A", "B", "C", "D", "E", "F", "G", "H", "I", "J", "K", "L", "M", "N", "O", "P", "Q", "R", "S", "T", "U", "V", "W", "X", "Y", "Z">>

LowerCase == <<"a", "b", "c", "d", "e", "f", "g", "h", "i", "j", "k", "l", "m", "n", "o", "p", "q", "r", "s", "t", "u", "v", "w", "x", "y", "z">>

\* The lower-case letter of every upper-case letter.
LowerOf ==
    [c \in Range(UpperCase) |-> LowerCase[CHOOSE k \in 1..Len(UpperCase) : UpperCase[k] = c]]

\* The string as it is: toLowerCase forgotten.
KeepCase(str) == [i \in 1..Len(str) |-> str[i]]

\* String.prototype.toLowerCase.
toLowerCase(str) ==
    [i \in 1..Len(str) |-> IF str[i] \in DOMAIN LowerOf THEN LowerOf[str[i]] ELSE str[i]]

\* String.prototype.includes: word occurs in str as a contiguous substring.
includes(str, word) ==
    \E i \in 0..(Len(str) - Len(word)) :
        \A k \in 1..Len(word) : str[i + k] = word[k]

\* ------------------------------------------------------------------------
\* GameMatcher (frontend/js/matching.js)
\* ------------------------------------------------------------------------

\* The genre table of inferGenresFromName, in the order of Object.entries.
keywords ==
    <<
    [genre |-> "Action", words |-> <<
        <<"a", "c", "t", "i", "o", "n">>,
        <<"s", "h", "o", "o", "t", "e", "r">>,
        <<"f", "p", "s">>,
        <<"c", "o", "m", "b", "a", "t">>,
        <<"f", "i", "g", "h", "t">>,
        <<"b", "a", "t", "t", "l", "e">>,
        <<"w", "a", "r">>>>],
    [genre |-> "Adventure", words |-> <<
        <<"a", "d", "v", "e", "n", "t", "u", "r", "e">>,
        <<"e", "x", "p", "l", "o", "r", "e">>,
        <<"q", "u", "e", "s", "t">>>>],
    [genre |-> "RPG", words |-> <<
        <<"r", "p", "g">>,
        <<"r", "o", "l", "e", "-", "p", "l", "a", "y", "i", "n", "g">>,
        <<"f", "a", "n", "t", "a", "s", "y">>,
        <<"d", "r", "a", "g", "o", "n">>,
        <<"s", "w", "o", "r", "d">>>>],
    [genre |-> "Strategy", words |-> <<
        <<"s", "t", "r", "a", "t", "e", "g", "y">>,
        <<"t", "a", "c", "t", "i", "c", "s">>,
        <<"r", "t", "s">>,
        <<"c", "i", "v", "i", "l", "i", "z", "a", "t", "i", "o", "n">>,
        <<"c", "o", "m", "m", "a", "n", "d">>>>],
    [genre |-> "Simulation", words |-> <<
        <<"s", "i", "m", "u", "l", "a", "t", "o", "r">>,
        <<"s", "i", "m", "u", "l", "a", "t", "i", "o", "n">>,
        <<"t", "y", "c", "o", "o", "n">>,
        <<"m", "a", "n", "a", "g", "e", "r">>>>],
    [genre |-> "Sports", words |-> <<
        <<"s", "p", "o", "r", "t", "s">>,
        <<"f", "o", "o", "t", "b", "a", "l", "l">>,
        <<"s", "o", "c", "c", "e", "r">>,
        <<"b", "a", "s", "k", "e", "t", "b", "a", "l", "l">>,
        <<"r", "a", "c", "i", "n", "g">>,
        <<"n", "b", "a">>,
        <<"f", "i", "f", "a">>>>],
    [genre |-> "Puzzle", words |-> <<
        <<"p", "u", "z", "z", "l", "e">>,
        <<"t", "e", "t", "r", "i", "s">>,
        <<"m", "a", "t", "c", "h">>>>],
    [genre |-> "Horror", words |-> <<
        <<"h", "o", "r", "r", "o", "r">>,
        <<"s", "c", "a", "r", "y">>,
        <<"z", "o", "m", "b", "i", "e">>,
        <<"d", "e", "a", "d">>,
        <<"e", "v", "i", "l">>>>],
    [genre |-> "Multiplayer", words |-> <<
        <<"m", "u", "l", "t", "i", "p", "l", "a", "y", "e", "r">>,
        <<"o", "n", "l", "i", "n", "e">>,
        <<"c", "o", "o", "p">>,
        <<"c", "o", "-", "o", "p">>,
        <<"v", "e", "r", "s", "u", "s">>>>],
    [genre |-> "Indie", words |-> <<
        <<"i", "n", "d", "i", "e">>>>]
    >>

\* GameMatcher.inferGenresFromName(name): the genres, in table order, one of
\* whose keywords the name contains.  The name is matched as it is given.
inferGenresFromName(name) ==
    LET matches(row) == \E w \in 1..Len(row.words) : includes(name, row.words[w])
        hit == SelectSeq(keywords, matches)
    IN  [i \in 1..Len(hit) |-> hit[i].genre]

\* The appids of a library, in library order.
AppIdsOf(games) == [i \in 1..Len(games) |-> games[i].appid]

\* friends.reduce((sum, friend) => sum + (friendGame ? friendGame.playtime_forever : 0), 0)
\* with friendGame = friend.games.find(g => g.appid === appId), over the
\* first n friends.
RECURSIVE SumPlaytime(_, _, _)
SumPlaytime(friends, appId, n) ==
    IF n = 0 THEN 0
    ELSE LET friendGame == FindGame(friends[n].games, appId)
         IN  Plus(SumPlaytime(friends, appId, n - 1),
                  IF friendGame # <<>>
                  THEN NumberOf(friendGame[1], "playtime_forever") ELSE 0)

\* { ...game, totalPlaytime, averagePlaytime, ownerCount } of one common appId.
CommonGame(friends, appId) ==
    LET game == MapGet(friends[1].games, appId)
        totalPlaytime == SumPlaytime(friends, appId, Len(friends))
    IN  [totalPlaytime |-> totalPlaytime,
         averagePlaytime |-> MathRound(totalPlaytime, Len(friends)),
         ownerCount |-> Len(friends)] @@ game

\* gameSetsByFriend.some(set => set.has(appId)): a slip for every.
InSomeSet(gameSetsByFriend, appId) ==
    \E i \in 1..Len(gameSetsByFriend) : Contains(gameSetsByFriend[i], appId)

\* gameSetsByFriend.every(set => set.has(appId))
InEverySet(gameSetsByFriend, appId) ==
    \A i \in 1..Len(gameSetsByFriend) : Contains(gameSetsByFriend[i], appId)

\* GameMatcher.findCommonGames(friends).
findCommonGames(friends) ==
    IF Len(friends) = 0 THEN <<>>
    ELSE IF Len(friends) = 1 THEN friends[1].games
    ELSE LET gameSetsByFriend ==
                 [i \in 1..Len(friends) |-> SetOf(AppIdsOf(friends[i].games))]
             inAll(appId) == InEverySet(gameSetsByFriend, appId)
             commonAppIds == SelectSeq(gameSetsByFriend[1], inAll)
             commonGames ==
                 [k \in 1..Len(commonAppIds) |-> CommonGame(friends, commonAppIds[k])]
         IN  SortDesc(commonGames,
                      [k \in 1..Len(commonGames) |-> commonGames[k].totalPlaytime])

\* The (friend, game) pairs in the order the nested forEach of
\* findAlmostMatchedGames visits them.
Visits(friends) ==
    Concat([i \in 1..Len(friends) |->
               [k \in 1..Len(friends[i].games) |->
                   [name |-> friends[i].name, game |-> friends[i].games[k]]]])

\* The gameOwnership Map after both passes, as the sequence of its values in
\* insertion order: for every appid, the game record that inserted the key,
\* one owner name pushed per visit of the appid, and the names of the friends
\* whose name is not among the owners.
GameOwnership(friends) ==
    LET visits == Visits(friends)
        keys == SetOf([v \in 1..Len(visits) |-> visits[v].game.appid])
        entry(appId) ==
            LET same(v) == v.game.appid = appId
                mine == SelectSeq(visits, same)
                owners == [v \in 1..Len(mine) |-> mine[v].name]
                missing(f) == ~Contains(owners, f.name)
                absent == SelectSeq(friends, missing)
            IN  [game |-> mine[1].game,
                 owners |-> owners,
                 missingOwners |-> [f \in 1..Len(absent) |-> absent[f].name]]
    IN  [k \in 1..Len(keys) |-> entry(keys[k])]

\* A sort key that is the same for every game.
PlaytimeIgnored(g) == 0

\* b.playtime_forever || 0
PlaytimeOr0(g) == IF "playtime_forever" \in DOMAIN g THEN g.playtime_forever ELSE 0

\* friends.length < 2: a slip for < 3.
FewerThanTwo(friends) == Len(friends) < 2

\* friends.length < 3
FewerThanThree(friends) == Len(friends) < 3

\* GameMatcher.findAlmostMatchedGames(friends).
findAlmostMatchedGames(friends) ==
    IF FewerThanThree(friends) THEN <<>>
    ELSE LET gameOwnership == GameOwnership(friends)
             almost(data) == Len(data.owners) = Len(friends) - 1
             kept == SelectSeq(gameOwnership, almost)
             almostMatched ==
                 [k \in 1..Len(kept) |->
                     [owners |-> kept[k].owners,
                      missingOwners |-> kept[k].missingOwners,
                      ownerCount |-> Len(kept[k].owners)] @@ kept[k].game]
         IN  SortDesc(almostMatched,
                      [k \in 1..Len(almostMatched) |-> PlaytimeOr0(almostMatched[k])])

\* friendGenres as an Array instead of a Set: every tagged game adds its
\* genres again.
FriendGenresArray(friend, gameDetails) ==
    Concat([k \in 1..Len(friend.games) |->
        LET game == friend.games[k]
            detailed ==
                IF ~gameDetails.isNull /\ game.appid \in DOMAIN gameDetails.map
                THEN gameDetails.map[game.appid] ELSE <<>>
        IN  detailed \o inferGenresFromName(toLowerCase(game.name))])

\* The friendGenres Set of one friend: for each game in library order, the
\* genre descriptions of its details (when details are given and have the
\* appid), then the genres inferred from its lower-cased name.
FriendGenres(friend, gameDetails) ==
    SetOf(Concat([k \in 1..Len(friend.games) |->
        LET game == friend.games[k]
            detailed ==
                IF ~gameDetails.isNull /\ game.appid \in DOMAIN gameDetails.map
                THEN gameDetails.map[game.appid] ELSE <<>>
        IN  detailed \o inferGenresFromName(toLowerCase(game.name))]))

\* The steps of the forEach over one friend's friendGenres, in order.
FriendSteps(friend, friendGenres) ==
    [k \in 1..Len(friendGenres) |-> [genre |-> friendGenres[k], name |-> friend.name]]

\* The steps of the inner forEach of analyzeSharedGenres over all friends.
GenreSteps(friends, gameDetails) ==
    Concat([i \in 1..Len(friends) |->
               FriendSteps(friends[i], FriendGenres(friends[i], gameDetails))])

\* The entry of a genre in the genreCounts Map after the given steps: every
\* step with the genre increments count and adds the friend's name to the
\* friends Set.
GenreEntry(steps, genre) ==
    LET same(step) == step.genre = genre
        data(mine) ==
            [genre |-> genre,
             count |-> Len(mine),
             friends |-> SetOf([t \in 1..Len(mine) |-> mine[t].name])]
    IN  data(SelectSeq(steps, same))

\* The genreCounts Map after the given steps, as the sequence of its entries
\* in insertion order: a step inserts its genre if it is new.
GenreEntries(steps, keys) == [k \in 1..Len(keys) |-> GenreEntry(steps, keys[k])]

\* A genreCounts that iterates from the newest key to the oldest.
GenreCountsNewestFirst(friends, gameDetails) ==
    LET steps == GenreSteps(friends, gameDetails)
        keys == SetOf([t \in 1..Len(steps) |-> steps[t].genre])
    IN  GenreEntries(steps, [k \in 1..Len(keys) |-> keys[Len(keys) + 1 - k]])

\* The genreCounts Map after the loop over the friends.
GenreCounts(friends, gameDetails) ==
    LET steps == GenreSteps(friends, gameDetails)
    IN  GenreEntries(steps, SetOf([t \in 1..Len(steps) |-> steps[t].genre]))

\* data.friends.size >= 1: a slip for the comparison with friends.length.
AnyFriendHas(data, friends) == Len(data.friends) >= 1

\* data.friends.size === friends.length
AllFriendsShare(data, friends) == Len(data.friends) = Len(friends)

\* GameMatcher.analyzeSharedGenres(friends, gameDetails).
analyzeSharedGenres(friends, gameDetails) ==
    LET genreCounts == GenreCounts(friends, gameDetails)
        shared(data) == AllFriendsShare(data, friends)
        sharedGenres == SelectSeq(genreCounts, shared)
    IN  SortDesc(sharedGenres, [k \in 1..Len(sharedGenres) |-> sharedGenres[k].count])

\* ------------------------------------------------------------------------
\* State
\* ------------------------------------------------------------------------

VARIABLES
    friendsArg,     \* the friends argument of a call of a GameMatcher function
    detailsArg,     \* the gameDetails argument of analyzeSharedGenres
    replyArg,       \* the reply of the recommendation service handed to the
                    \* reply handling of handleGetAIRecommendations
    nameArg,        \* the game name whose genres are inferred
    called,         \* the function that was called, "none" before
    returned        \* what the call returned

matcherVars == <<friendsArg, detailsArg, replyArg, nameArg, called, returned>>

VARIABLES
    storage,            \* localStorage: the saved roster and selection
    roster,             \* FriendsManager.friends, a Map steamId -> friend data
    selected,           \* FriendsManager.selected, a Set of steamIds
    pendingFriend,      \* App.pendingFriend: <<>> for null, else <<friend data>>
    searches,           \* the handleSearchFriend calls that are at an await
    lastCommonGames,    \* App.lastCommonGames
    lastSharedGenres,   \* App.lastSharedGenres
    resultsShown,       \* whether resultsSection is displayed
    aiRequest,          \* <<>>, or the recommendation request awaiting its reply
    aiPanel             \* what the aiRecommendations element shows

appVars == <<storage, roster, selected, pendingFriend, searches, lastCommonGames,
             lastSharedGenres, resultsShown, aiRequest, aiPanel>>

\* History of the page, kept beside its state to say where the state came
\* from; no handler reads it.
VARIABLES
    matchedFriends,     \* <<>> before the first match, else <<the steamIds of the
                        \* friends handleFindMatches last computed the stored
                        \* results from>>
    latestSearch,       \* <<>> before the first search, else <<the input of the
                        \* handleSearchFriend call started last>>
    staleRequest        \* whether handleFindMatches has reset the panel since
                        \* the request that awaits its reply was sent

historyVars == <<matchedFriends, latestSearch, staleRequest>>

vars == <<matcherVars, appVars, historyVars>>

\* ------------------------------------------------------------------------
\* Inputs of the GameMatcher functions
\* ------------------------------------------------------------------------

\* Sequences over S of length at most n.
SeqUpTo(S, n) == UNION {[1..k -> S] : k \in 0..n}

\* The ways of dealing the records of all, in their order, to n friends: the
\* k-th library is the records after the (k-1)-th cut up to the k-th cut, and
\* a library may be empty.
Deals(all, n) ==
    IF n = 0 THEN IF all = <<>> THEN {<<>>} ELSE {}
    ELSE LET Cuts == {c \in [1..(n - 1) -> 0..Len(all)] :
                         \A k \in 1..(n - 2) : c[k] <= c[k + 1]}
             from(c, k) == IF k = 1 THEN 1 ELSE c[k - 1] + 1
             to(c, k) == IF k = n THEN Len(all) ELSE c[k]
         IN  {[k \in 1..n |-> SubSeq(all, from(c, k), to(c, k))] : c \in Cuts}

\* Display names.
FriendNames == <<"ann", "bob", "cy", "dee", "eve">>

\* The display names of n friends: every friend has a name of its own, or
\* the second friend has the name of the first.
NameLists(n) ==
    {ns \in [1..n -> Range(FriendNames)] :
        \A k \in 1..n :
            ns[k] = FriendNames[k] \/ (k = 2 /\ ns[k] = FriendNames[1])}

\* The friend list with the given display names and libraries.
Friends(names, libs) ==
    [k \in 1..Len(libs) |-> [name |-> names[k], games |-> libs[k]]]

\* The friend list with the given libraries, the k-th friend having the k-th
\* name.
NamedFriends(libs) == Friends(FriendNames, libs)

Game(appid, name, playtime) ==
    [appid |-> appid, name |-> name, playtime_forever |-> playtime]

PortalName == <<"P", "o", "r", "t", "a", "l">>
PortalTwoName == <<"P", "o", "r", "t", "a", "l", " ", "2">>
ChessName == <<"C", "h", "e", "s", "s">>

WarQuestName == <<"W", "a", "r", " ", "Q", "u", "e", "s", "t">>
TetrisWarName == <<"T", "e", "t", "r", "i", "s", " ", "W", "A", "R">>

\* No gameDetails argument (the default, null).
NoDetails == [isNull |-> TRUE]

\* Library records for findCommonGames: two catalogue entries, the first
\* known under two names, each with two playtimes; an appid may repeat.
CommonGames ==
    {Game(1, n, p) : n \in {PortalName, PortalTwoName}, p \in {1, 2}}
        \cup {Game(2, ChessName, p) : p \in {1, 2}}

\* Library records of a profile service that is not to be trusted: a negative
\* playtime and records without playtime_forever.
MalformedGames ==
    {Game(1, PortalName, -2), Game(1, PortalName, 1),
     [appid |-> 1, name |-> PortalName], Game(2, ChessName, 3)}

\* Library records for findAlmostMatchedGames: two catalogue entries, each
\* with two playtimes; an appid may repeat.
AlmostGames ==
    {Game(1, PortalName, p) : p \in {1, 2}}
        \cup {Game(2, ChessName, p) : p \in {1, 2}}

\* Library records for analyzeSharedGenres: names that the keyword table tags with
\* Action and Adventure, with Puzzle and Action, and with no genre.
GenreGames ==
    {Game(1, WarQuestName, 1), Game(2, TetrisWarName, 1), Game(3, ChessName, 1)}

\* The gameDetails arguments: none, or a Map with the genres of appid 3.
DetailsArgs ==
    {NoDetails, [isNull |-> FALSE, map |-> (3 :> <<"Indie", "Action">>)]}

\* ------------------------------------------------------------------------
\* FriendsManager (frontend/js/friends.js)
\* ------------------------------------------------------------------------

\* The steamIds of the roster, in Map order.
RosterIds(friends) == [i \in 1..Len(friends) |-> friends[i].steamId]

\* FriendsManager.hasFriend(steamId).
hasFriend(friends, steamId) == Contains(RosterIds(friends), steamId)

\* Map.prototype.set(friend.steamId, friend): a new key is appended, the value
\* of a key already there is replaced in place.
MapSet(friends, friend) ==
    IF hasFriend(friends, friend.steamId)
    THEN [i \in 1..Len(friends) |->
             IF friends[i].steamId = friend.steamId THEN friend ELSE friends[i]]
    ELSE Append(friends, friend)

\* Map.prototype.delete(steamId).
MapDelete(friends, steamId) ==
    LET others(f) == f.steamId # steamId IN SelectSeq(friends, others)

\* Set.prototype.add(steamId) on the selected Set.
SetAdd(set, steamId) == set \cup {steamId}

\* Set.prototype.delete(steamId) on the selected Set.
SetDelete(set, steamId) == set \ {steamId}

\* FriendsManager.getSelectedFriends(): the friends of the roster, in Map
\* order, whose steamId is selected.
getSelectedFriends(friends, set) ==
    LET isSelected(f) == f.steamId \in set IN SelectSeq(friends, isSelected)

\* FriendsManager.getSelectedCount().
getSelectedCount(set) == Cardinality(set)

\* FriendsManager.save(): what localStorage holds afterwards.
Saved(friends, set) == [hasFriends |-> TRUE, friends |-> friends,
                        hasSelected |-> TRUE, selected |-> set]

\* localStorage with neither key.
EmptyStorage == [hasFriends |-> FALSE, friends |-> <<>>,
                 hasSelected |-> FALSE, selected |-> {}]

\* The friends Map after the first half of FriendsManager.load(): every saved
\* friend is set under its steamId.
RECURSIVE LoadFriends(_)
LoadFriends(saved) ==
    IF saved = <<>> THEN <<>>
    ELSE MapSet(LoadFriends(SubSeq(saved, 1, Len(saved) - 1)), saved[Len(saved)])

\* The selected Set after the second half of FriendsManager.load(): the saved
\* ids that are in the roster or, without saved ids, all the roster.
LoadSelected(store, friends) ==
    IF store.hasSelected
    THEN {id \in store.selected : hasFriend(friends, id)}
    ELSE Range(RosterIds(friends))

\* ------------------------------------------------------------------------
\* The profile service (SteamAPI) and the recommendation backend
\* ------------------------------------------------------------------------

WarName == <<"W", "a", "r">>
QuestName == <<"Q", "u", "e", "s", "t">>
RpgName == <<"R", "P", "G">>
RtsName == <<"R", "T", "S">>
TycoonName == <<"T", "y", "c", "o", "o", "n">>
NbaName == <<"N", "B", "A">>
TetrisName == <<"T", "e", "t", "r", "i", "s">>
DeadName == <<"D", "e", "a", "d">>
CoopName == <<"C", "o", "o", "p">>
IndieName == <<"I", "n", "d", "i", "e">>

\* The names of the catalogue entries 1..11.
Catalogue ==
    <<WarName, QuestName, RpgName, RtsName, TycoonName, NbaName, TetrisName,
      DeadName, CoopName, IndieName, ChessName>>

\* A library that lists the given appids with the given playtimes.
Library(appids, playtimes) ==
    [k \in 1..Len(appids) |-> Game(appids[k], Catalogue[appids[k]], playtimes[k])]

\* What the profile service returns for the accounts it knows: two accounts
\* with eleven games in common.
Profiles ==
    <<[steamId |-> "s1", name |-> "ann", gameCount |-> 11,
       games |-> Library(<<1, 2, 3, 4, 5, 6, 7, 8, 9, 10, 11>>,
                         <<5, 0, 7, 1, 9, 2, 4, 3, 8, 6, 10>>)],
      [steamId |-> "s2", name |-> "bob", gameCount |-> 11,
       games |-> Library(<<11, 10, 9, 8, 7, 6, 5, 4, 3, 2, 1>>,
                         <<1, 3, 2, 0, 4, 6, 1, 2, 3, 5, 4>>)]>>

ProfileIds == {Profiles[i].steamId : i \in 1..Len(Profiles)}

ProfileOf(steamId) == Profiles[CHOOSE i \in 1..Len(Profiles) : Profiles[i].steamId = steamId]

\* What localStorage may hold when the page is opened: nothing, what an
\* earlier visit saved, or a friends item that something else than save()
\* wrote: without a selected item and with the same friend twice.
InitialStorages ==
    {EmptyStorage,
     Saved(<<Profiles[1], Profiles[2]>>, {"s1", "s2"}),
     Saved(<<Profiles[2], Profiles[1]>>, {"s1"}),
     [hasFriends |-> TRUE, friends |-> <<Profiles[2], Profiles[2]>>,
      hasSelected |-> FALSE, selected |-> {}]}

\* ------------------------------------------------------------------------
\* App (the main script)
\* ------------------------------------------------------------------------

\* The most handleSearchFriend calls at an await at the same time.
MaxSearches == 2

\* this.lastCommonGames.slice(0, 10)
MaxCommonGames == 10

\* this.lastSharedGenres.slice(0, 5)
MaxSharedGenres == 5

\* The JSON body handleGetAIRecommendations posts.
RequestBody(friends, commonGames, sharedGenres) ==
    LET games == Slice0(commonGames, MaxCommonGames)
        genres == Slice0(sharedGenres, MaxSharedGenres)
    IN  [common_games |-> [i \in 1..Len(games) |-> games[i].name],
         shared_genres |-> [i \in 1..Len(genres) |-> genres[i].genre],
         friend_names |-> [i \in 1..Len(friends) |-> friends[i].name]]

\* ------------------------------------------------------------------------
\* The reply of the recommendation service and its handling
\* (handleGetAIRecommendations after its await of fetch)
\* ------------------------------------------------------------------------

\* A reply is the Response of fetch: ok and status, whether its body parses
\* as JSON, and the parsed body, an object that has the properties success,
\* error and recommendations or lacks some of them.  An object property whose
\* value is undefined is, like a property the object does not have, a field
\* the record does not have.

\* The body with the given properties; each argument is <<>> for a property
\* the body does not have, or <<value>>.
Body(success, error, recommendations) ==
    LET given == [success |-> success, error |-> error,
                  recommendations |-> recommendations]
        keys == {k \in DOMAIN given : given[k] # <<>>}
    IN  [k \in keys |-> given[k][1]]

RecDeepRock ==
    [name |-> "Deep Rock Galactic", price |-> "$29.99",
     overview |-> "Co-op mining shooter", reason |-> "Everyone plays co-op",
     player_count |-> "1-4", tags |-> <<"Co-op", "Shooter">>]

RecStardew ==
    [name |-> "Stardew Valley", price |-> "$14.99",
     overview |-> "Farming together", reason |-> "A calm game for the group",
     player_count |-> "1-8", tags |-> <<>>]

\* An entry without player_count and tags, and one with a name only.
RecNoPlayers ==
    [name |-> "Terraria", price |-> "$9.99",
     overview |-> "Dig, fight, build", reason |-> "For the builders"]

RecNameOnly == [name |-> "Mystery"]

\* The properties every entry of recommendations has by the reply's schema.
EntryKeys == {"name", "price", "overview", "reason", "player_count", "tags"}

Entries == {RecDeepRock, RecStardew, RecNoPlayers, RecNameOnly}

\* Longest recommendations array of a reply.
MaxRecommendations == 2

Bodies ==
    {Body(success, error, recommendations) :
        success \in {<<>>, <<TRUE>>, <<FALSE>>},
        error \in {<<>>, <<"">>, <<"quota exceeded">>},
        recommendations \in {<<>>} \cup
            {<<recs>> : recs \in SeqUpTo(Entries, MaxRecommendations)}}
        \ {Body(<<>>, <<>>, <<>>)}

\* The replies: a JSON body with status 200 or 500, or a body that is not
\* JSON (an HTML error page of the proxy).
Replies ==
    {[ok |-> ok, status |-> IF ok THEN "200" ELSE "500", isJson |-> TRUE,
      data |-> data] : ok \in BOOLEAN, data \in Bodies}
    \cup {[ok |-> ok, status |-> IF ok THEN "200" ELSE "502", isJson |-> FALSE,
           data |-> Body(<<FALSE>>, <<>>, <<>>)] : ok \in BOOLEAN}

\* No reply: the argument of a call that takes none.
NoReply == [ok |-> FALSE, status |-> "0", isJson |-> FALSE,
            data |-> Body(<<FALSE>>, <<>>, <<>>)]

\* The message of the SyntaxError of response.json() and of the TypeError of
\* undefined.map(...); their wording is the JavaScript engine's.
SyntaxErrorMessage == "Unexpected token < in JSON"
TypeErrorMessage == "Cannot read properties of undefined (reading 'map')"

\* throw new Error(message): the message is the sequence of the pieces of
\* the template literal.
Thrown(message) == [threw |-> TRUE, message |-> message]

\* The object that keeps player_count under its own name.
RecommendationUnrenamed(rec) ==
    LET keys == {k \in EntryKeys : k \in DOMAIN rec}
    IN  [k \in keys |-> rec[k]]

\* rec => ({name, price, overview, reason, playerCount: rec.player_count,
\* tags}): a property rec lacks is read as undefined.
Recommendation(rec) ==
    LET from(k) == IF k = "playerCount" THEN "player_count" ELSE k
        keys == {k \in {"name", "price", "overview", "reason", "playerCount", "tags"} :
                    from(k) \in DOMAIN rec}
    IN  [k \in keys |-> rec[from(k)]]

\* The try block of handleGetAIRecommendations after fetch: what is thrown,
\* or the recommendations handed to renderAIRecommendations.
HandleReply(reply) ==
    IF ~reply.ok THEN Thrown(<<"Backend error: ", reply.status>>)
    ELSE IF ~reply.isJson THEN Thrown(<<SyntaxErrorMessage>>)
    ELSE LET data == reply.data
         IN  IF "success" \notin DOMAIN data \/ ~data.success
             THEN Thrown(<<IF "error" \in DOMAIN data /\ data.error # ""
                           THEN data.error ELSE "Unknown error">>)
             ELSE IF "recommendations" \notin DOMAIN data
             THEN Thrown(<<TypeErrorMessage>>)
             ELSE [threw |-> FALSE,
                   recommendations |->
                       [i \in 1..Len(data.recommendations) |->
                           Recommendation(data.recommendations[i])]]

\* What the aiRecommendations element shows afterwards: the error of the
\* catch block, or what renderAIRecommendations renders.
Panel(outcome) ==
    IF outcome.threw THEN [kind |-> "error", message |-> outcome.message]
    ELSE IF Len(outcome.recommendations) = 0 THEN [kind |-> "empty"]
    ELSE [kind |-> "cards", cards |-> outcome.recommendations]

\* The replies the page receives: a failed request, a reported failure and
\* a well-formed success.
AppReplies ==
    {[ok |-> FALSE, status |-> "500", isJson |-> TRUE,
      data |-> Body(<<FALSE>>, <<"quota exceeded">>, <<>>)],
     [ok |-> TRUE, status |-> "200", isJson |-> TRUE,
      data |-> Body(<<FALSE>>, <<"quota exceeded">>, <<>>)],
     [ok |-> TRUE, status |-> "200", isJson |-> TRUE,
      data |-> Body(<<TRUE>>, <<>>, <<<<RecDeepRock>>>>)]}

\* The state after new App(): init() loads the roster from localStorage and
\* updateUI() hides the results.
InitApp(store) ==
    /\ storage = store
    /\ roster = LoadFriends(IF store.hasFriends THEN store.friends ELSE <<>>)
    /\ selected = LoadSelected(store, roster)
    /\ pendingFriend = <<>>
    /\ searches = <<>>
    /\ lastCommonGames = <<>>
    /\ lastSharedGenres = <<>>
    /\ resultsShown = FALSE
    /\ aiRequest = <<>>
    /\ aiPanel = [kind |-> "initial"]

\* Nothing has happened on the page yet.
NoHistory ==
    /\ matchedFriends = <<>>
    /\ latestSearch = <<>>
    /\ staleRequest = FALSE

\* The page opened with nothing saved and left alone.
AppIdle == InitApp(EmptyStorage) /\ NoHistory

\* ------------------------------------------------------------------------
\* The handlers of App
\* ------------------------------------------------------------------------

\* What the user may type into friendInput: something the profile service
\* resolves to an account, or something it does not know.
SearchInputs == ProfileIds \cup {"nobody"}

\* The search at position i removed from the searches at an await.
WithoutSearch(i) == SubSeq(searches, 1, i - 1) \o SubSeq(searches, i + 1, Len(searches))

\* handleSearchFriend up to its first await: the preview is hidden, the
\* pending friend dropped and getSteamID awaited.
SearchFriend(input) ==
    /\ Len(searches) < MaxSearches
    /\ pendingFriend' = <<>>
    /\ searches' = Append(searches, [input |-> input, pc |-> "getSteamID"])
    /\ UNCHANGED <<storage, roster, selected, lastCommonGames, lastSharedGenres,
                   resultsShown, aiRequest, aiPanel, matcherVars>>

\* handleSearchFriend resumed after getSteamID: an unknown input and a friend
\* already in the roster end the search with an error, otherwise
\* getPlayerSummary is awaited.
SearchResolved(i) ==
    /\ searches[i].pc = "getSteamID"
    /\ IF searches[i].input \notin ProfileIds \/ hasFriend(roster, searches[i].input)
       THEN searches' = WithoutSearch(i)
       ELSE searches' = [searches EXCEPT ![i].pc = "getPlayerSummary"]
    /\ UNCHANGED <<storage, roster, selected, pendingFriend, lastCommonGames,
                   lastSharedGenres, resultsShown, aiRequest, aiPanel, matcherVars>>

\* handleSearchFriend resumed after getPlayerSummary: getOwnedGames is awaited.
SearchSummary(i) ==
    /\ searches[i].pc = "getPlayerSummary"
    /\ searches' = [searches EXCEPT ![i].pc = "getOwnedGames"]
    /\ UNCHANGED <<storage, roster, selected, pendingFriend, lastCommonGames,
                   lastSharedGenres, resultsShown, aiRequest, aiPanel, matcherVars>>

\* handleSearchFriend resumed after getOwnedGames: the friend data becomes the
\* pending friend and the preview is shown.
SearchGames(i) ==
    /\ searches[i].pc = "getOwnedGames"
    /\ pendingFriend' = <<ProfileOf(searches[i].input)>>
    /\ searches' = WithoutSearch(i)
    /\ UNCHANGED <<storage, roster, selected, lastCommonGames, lastSharedGenres,
                   resultsShown, aiRequest, aiPanel, matcherVars>>

\* An awaited call of the profile service rejects (network error, private
\* profile): the catch block shows the error and the search ends.
SearchFails(i) ==
    /\ i \in 1..Len(searches)
    /\ searches' = WithoutSearch(i)
    /\ UNCHANGED <<storage, roster, selected, pendingFriend, lastCommonGames,
                   lastSharedGenres, resultsShown, aiRequest, aiPanel, matcherVars>>

\* handleConfirmAdd with an addFriend that does not look for the steamId in
\* the roster.
ConfirmAddUnchecked ==
    /\ pendingFriend # <<>>
    /\ roster' = MapSet(roster, pendingFriend[1])
    /\ selected' = SetAdd(selected, pendingFriend[1].steamId)
    /\ storage' = Saved(roster', selected')
    /\ pendingFriend' = <<>>
    /\ resultsShown' = FALSE
    /\ UNCHANGED <<searches, lastCommonGames, lastSharedGenres, aiRequest, aiPanel,
                   matcherVars>>

\* handleConfirmAdd with a pending friend.  addFriend throws for a steamId
\* already in the roster, which ends the handler; otherwise the friend is
\* added and selected, the roster saved, the preview hidden and the results
\* hidden by updateUI.
ConfirmAdd ==
    /\ pendingFriend # <<>>
    /\ IF hasFriend(roster, pendingFriend[1].steamId)
       THEN UNCHANGED <<storage, roster, selected, pendingFriend, resultsShown>>
       ELSE /\ roster' = MapSet(roster, pendingFriend[1])
            /\ selected' = SetAdd(selected, pendingFriend[1].steamId)
            /\ storage' = Saved(roster', selected')
            /\ pendingFriend' = <<>>
            /\ resultsShown' = FALSE
    /\ UNCHANGED <<searches, lastCommonGames, lastSharedGenres, aiRequest, aiPanel,
                   matcherVars>>

\* handleCancelPreview.
CancelPreview ==
    /\ pendingFriend # <<>>
    /\ pendingFriend' = <<>>
    /\ UNCHANGED <<storage, roster, selected, searches, lastCommonGames,
                   lastSharedGenres, resultsShown, aiRequest, aiPanel, matcherVars>>

\* The remove button of a friend card: FriendsManager.removeFriend, then the
\* onUpdate callback saves and updateUI hides the results.
RemoveFriend(steamId) ==
    /\ hasFriend(roster, steamId)
    /\ roster' = MapDelete(roster, steamId)
    /\ selected' = SetDelete(selected, steamId)
    /\ storage' = Saved(roster', selected')
    /\ resultsShown' = FALSE
    /\ UNCHANGED <<pendingFriend, searches, lastCommonGames, lastSharedGenres,
                   aiRequest, aiPanel, matcherVars>>

\* The checkbox of a friend card: FriendsManager.toggleSelection, then the
\* onUpdate callback saves and updateUI hides the results.
ToggleSelection(steamId) ==
    /\ hasFriend(roster, steamId)
    /\ selected' = IF steamId \in selected
                   THEN SetDelete(selected, steamId) ELSE SetAdd(selected, steamId)
    /\ storage' = Saved(roster, selected')
    /\ resultsShown' = FALSE
    /\ UNCHANGED <<roster, pendingFriend, searches, lastCommonGames, lastSharedGenres,
                   aiRequest, aiPanel, matcherVars>>

\* handleFindMatches without its check of friends.length.
FindMatchesUnguarded ==
    LET friends == getSelectedFriends(roster, selected)
    IN  /\ lastCommonGames' = findCommonGames(friends)
        /\ lastSharedGenres' = analyzeSharedGenres(friends, NoDetails)
        /\ aiPanel' = [kind |-> "placeholder"]
        /\ resultsShown' = TRUE
        /\ UNCHANGED <<storage, roster, selected, pendingFriend, searches, aiRequest,
                       matcherVars>>

\* handleFindMatches: refused with an alert for fewer than 2 selected
\* friends; otherwise the results are computed, stored and shown and the
\* recommendations panel is reset.
FindMatches ==
    LET friends == getSelectedFriends(roster, selected)
    IN  /\ IF Len(friends) < 2
           THEN UNCHANGED <<lastCommonGames, lastSharedGenres, resultsShown, aiPanel>>
           ELSE /\ lastCommonGames' = findCommonGames(friends)
                /\ lastSharedGenres' = analyzeSharedGenres(friends, NoDetails)
                /\ aiPanel' = [kind |-> "placeholder"]
                /\ resultsShown' = TRUE
        /\ UNCHANGED <<storage, roster, selected, pendingFriend, searches, aiRequest,
                       matcherVars>>

\* handleGetAIRecommendations up to its await of fetch; the button is
\* disabled while a request awaits its reply.  Refused with an alert for
\* fewer than 2 selected friends.
GetAIRecommendations ==
    LET friends == getSelectedFriends(roster, selected)
    IN  /\ aiRequest = <<>>
        /\ IF Len(friends) < 2
           THEN UNCHANGED aiRequest
           ELSE aiRequest' = <<RequestBody(friends, lastCommonGames, lastSharedGenres)>>
        /\ UNCHANGED <<storage, roster, selected, pendingFriend, searches,
                       lastCommonGames, lastSharedGenres, resultsShown, aiPanel,
                       matcherVars>>

\* handleGetAIRecommendations resumed after fetch: the recommendations of the
\* reply, or the error, are rendered and the button enabled again.
AIReply(reply) ==
    /\ aiRequest # <<>>
    /\ aiPanel' = Panel(HandleReply(reply))
    /\ aiRequest' = <<>>
    /\ UNCHANGED <<storage, roster, selected, pendingFriend, searches,
                   lastCommonGames, lastSharedGenres, resultsShown, matcherVars>>

Init ==
    /\ \E store \in InitialStorages : InitApp(store)
    /\ NoHistory
    /\ friendsArg = <<>>
    /\ detailsArg = NoDetails
    /\ replyArg = NoReply
    /\ nameArg = <<>>
    /\ called = "none"
    /\ returned = <<>>

\* The handlers of the page, its history not recorded.
Next ==
    \/ \E input \in SearchInputs : SearchFriend(input) /\ UNCHANGED historyVars
    \/ \E i \in 1..Len(searches) : SearchResolved(i) /\ UNCHANGED historyVars
    \/ \E i \in 1..Len(searches) : SearchSummary(i) /\ UNCHANGED historyVars
    \/ \E i \in 1..Len(searches) : SearchGames(i) /\ UNCHANGED historyVars
    \/ \E i \in 1..Len(searches) : SearchFails(i) /\ UNCHANGED historyVars
    \/ ConfirmAdd /\ UNCHANGED historyVars
    \/ CancelPreview /\ UNCHANGED historyVars
    \/ \E steamId \in ProfileIds : RemoveFriend(steamId) /\ UNCHANGED historyVars
    \/ \E steamId \in ProfileIds : ToggleSelection(steamId) /\ UNCHANGED historyVars
    \/ FindMatches /\ UNCHANGED historyVars
    \/ GetAIRecommendations /\ UNCHANGED historyVars
    \/ \E reply \in AppReplies : AIReply(reply) /\ UNCHANGED historyVars

Spec == Init /\ [][Next]_vars

\* ------------------------------------------------------------------------
\* Calls of the FriendsManager methods with arbitrary arguments
\* ------------------------------------------------------------------------

\* The friend data of an account with a private library.
Stranger == [steamId |-> "s3", name |-> "cy", gameCount |-> 0, games |-> <<>>]

\* The friend data addFriend is called with.
ManagerFriends == Range(Profiles) \cup {Stranger}

\* The steamIds removeFriend and toggleSelection are called with, those of
\* friends in the roster or not.
ManagerIds == {f.steamId : f \in ManagerFriends}

\* The friends Map after the first half of FriendsManager.load() on a
\* manager that holds friends already.
RECURSIVE LoadedFriends(_, _)
LoadedFriends(friends, saved) ==
    IF saved = <<>> THEN friends
    ELSE MapSet(LoadedFriends(friends, SubSeq(saved, 1, Len(saved) - 1)), saved[Len(saved)])

\* The selected Set after the second half of FriendsManager.load(): the saved
\* ids that are in the roster or, without saved ids, all the roster are added.
LoadedSelected(set, store, friends) ==
    IF store.hasSelected
    THEN set \cup {id \in store.selected : hasFriend(friends, id)}
    ELSE set \cup Range(RosterIds(friends))

\* What updateUI makes of matchSection: displayed for 2 selected ids or more.
MatchSectionShown(set) == getSelectedCount(set) >= 2

InitManager ==
    /\ \E store \in InitialStorages : InitApp(store)
    /\ NoHistory
    /\ friendsArg = <<>>
    /\ detailsArg = NoDetails
    /\ replyArg = NoReply
    /\ nameArg = <<>>
    /\ called = "none"
    /\ returned = <<>>

\* FriendsManager.addFriend(friendData): throws for a steamId in the roster.
CallAddFriend(friendData) ==
    /\ called' = "addFriend"
    /\ IF hasFriend(roster, friendData.steamId)
       THEN UNCHANGED <<roster, selected>>
       ELSE /\ roster' = MapSet(roster, friendData)
            /\ selected' = SetAdd(selected, friendData.steamId)
    /\ UNCHANGED <<friendsArg, detailsArg, replyArg, nameArg, returned, storage,
                   pendingFriend, searches, lastCommonGames, lastSharedGenres,
                   resultsShown, aiRequest, aiPanel, historyVars>>

\* FriendsManager.removeFriend(steamId).
CallRemoveFriend(steamId) ==
    /\ called' = "removeFriend"
    /\ roster' = MapDelete(roster, steamId)
    /\ selected' = SetDelete(selected, steamId)
    /\ UNCHANGED <<friendsArg, detailsArg, replyArg, nameArg, returned, storage,
                   pendingFriend, searches, lastCommonGames, lastSharedGenres,
                   resultsShown, aiRequest, aiPanel, historyVars>>

\* FriendsManager.toggleSelection(steamId).
CallToggleSelection(steamId) ==
    /\ called' = "toggleSelection"
    /\ selected' = IF steamId \in selected
                   THEN SetDelete(selected, steamId) ELSE SetAdd(selected, steamId)
    /\ UNCHANGED <<friendsArg, detailsArg, replyArg, nameArg, returned, storage, roster,
                   pendingFriend, searches, lastCommonGames, lastSharedGenres,
                   resultsShown, aiRequest, aiPanel, historyVars>>

\* FriendsManager.load().
CallLoad ==
    /\ called' = "load"
    /\ roster' = LoadedFriends(roster, IF storage.hasFriends THEN storage.friends ELSE <<>>)
    /\ selected' = LoadedSelected(selected, storage, roster')
    /\ UNCHANGED <<friendsArg, detailsArg, replyArg, nameArg, returned, storage,
                   pendingFriend, searches, lastCommonGames, lastSharedGenres,
                   resultsShown, aiRequest, aiPanel, historyVars>>

NextManager ==
    \/ \E friendData \in ManagerFriends : CallAddFriend(friendData)
    \/ \E steamId \in ManagerIds : CallRemoveFriend(steamId)
    \/ \E steamId \in ManagerIds : CallToggleSelection(steamId)
    \/ CallLoad

SpecManager == InitManager /\ [][NextManager]_vars

\* ------------------------------------------------------------------------
\* The page with its history recorded
\* ------------------------------------------------------------------------

\* A handleSearchFriend call starts: it is the call started last.
RecordSearch(input) ==
    /\ latestSearch' = <<input>>
    /\ UNCHANGED <<matchedFriends, staleRequest>>

\* handleFindMatches runs: when it accepts the selection, the stored results
\* come from the selected friends, and a request awaiting its reply was sent
\* before this match.
RecordMatch ==
    LET friends == getSelectedFriends(roster, selected)
    IN  IF Len(friends) < 2
        THEN UNCHANGED historyVars
        ELSE /\ matchedFriends' = <<RosterIds(friends)>>
             /\ staleRequest' = (aiRequest # <<>>)
             /\ UNCHANGED latestSearch

\* handleGetAIRecommendations sends a request, or the reply of one arrives:
\* no request sent before the last match awaits its reply.
RecordRequest ==
    /\ staleRequest' = FALSE
    /\ UNCHANGED <<matchedFriends, latestSearch>>

NextHistory ==
    \/ \E input \in SearchInputs : SearchFriend(input) /\ RecordSearch(input)
    \/ \E i \in 1..Len(searches) : SearchResolved(i) /\ UNCHANGED historyVars
    \/ \E i \in 1..Len(searches) : SearchSummary(i) /\ UNCHANGED historyVars
    \/ \E i \in 1..Len(searches) : SearchGames(i) /\ UNCHANGED historyVars
    \/ \E i \in 1..Len(searches) : SearchFails(i) /\ UNCHANGED historyVars
    \/ ConfirmAdd /\ UNCHANGED historyVars
    \/ CancelPreview /\ UNCHANGED historyVars
    \/ \E steamId \in ProfileIds : RemoveFriend(steamId) /\ UNCHANGED historyVars
    \/ \E steamId \in ProfileIds : ToggleSelection(steamId) /\ UNCHANGED historyVars
    \/ FindMatches /\ RecordMatch
    \/ GetAIRecommendations /\ RecordRequest
    \/ \E reply \in AppReplies : AIReply(reply) /\ RecordRequest

SpecHistory == Init /\ [][NextHistory]_vars

\* ------------------------------------------------------------------------
\* Calls of the GameMatcher functions on arbitrary inputs
\* ------------------------------------------------------------------------

InitCommon ==
    /\ AppIdle
    /\ \E n \in 0..MaxFriends : \E all \in SeqUpTo(CommonGames, MaxGames) :
          \E libs \in Deals(all, n) : friendsArg = NamedFriends(libs)
    /\ detailsArg = NoDetails
    /\ replyArg = NoReply
    /\ nameArg = <<>>
    /\ called = "none"
    /\ returned = <<>>

\* A findCommonGames that sorts the first friend's library in place, by
\* playtime, before it looks at it.
CallFindCommonGamesInPlace ==
    /\ called = "none"
    /\ called' = "findCommonGames"
    /\ friendsArg' =
          IF friendsArg = <<>> THEN friendsArg
          ELSE [friendsArg EXCEPT ![1].games =
                   SortDesc(@, [k \in 1..Len(@) |-> PlaytimeOr0(@[k])])]
    /\ returned' = findCommonGames(friendsArg')
    /\ UNCHANGED <<detailsArg, replyArg, nameArg, appVars, historyVars>>

\* A call of findCommonGames: no statement of the function writes to the
\* friends argument or to an object reachable from it (sort is called on
\* the array that map made, matching.js:30 and 46).
CallFindCommonGames ==
    /\ called = "none"
    /\ called' = "findCommonGames"
    /\ returned' = findCommonGames(friendsArg)
    /\ UNCHANGED <<friendsArg, detailsArg, replyArg, nameArg, appVars, historyVars>>

NextCommon == CallFindCommonGames

SpecCommon == InitCommon /\ [][NextCommon]_vars

\* findCommonGames on libraries with malformed records.
InitMalformed ==
    /\ AppIdle
    /\ \E n \in 0..MaxFriends : \E all \in SeqUpTo(MalformedGames, MaxGames) :
          \E libs \in Deals(all, n) : friendsArg = NamedFriends(libs)
    /\ detailsArg = NoDetails
    /\ replyArg = NoReply
    /\ nameArg = <<>>
    /\ called = "none"
    /\ returned = <<>>

NextMalformed == CallFindCommonGames

SpecMalformed == InitMalformed /\ [][NextMalformed]_vars

InitAlmost ==
    /\ AppIdle
    /\ \E n \in 0..MaxFriends : \E names \in NameLists(n) :
          \E all \in SeqUpTo(AlmostGames, MaxGames) : \E libs \in Deals(all, n) :
              friendsArg = Friends(names, libs)
    /\ detailsArg = NoDetails
    /\ replyArg = NoReply
    /\ nameArg = <<>>
    /\ called = "none"
    /\ returned = <<>>

CallFindAlmostMatchedGames ==
    /\ called = "none"
    /\ called' = "findAlmostMatchedGames"
    /\ returned' = findAlmostMatchedGames(friendsArg)
    /\ UNCHANGED <<friendsArg, detailsArg, replyArg, nameArg, appVars, historyVars>>

NextAlmost == CallFindAlmostMatchedGames

SpecAlmost == InitAlmost /\ [][NextAlmost]_vars

InitGenres ==
    /\ AppIdle
    /\ \E n \in 0..MaxFriends : \E names \in NameLists(n) :
          \E all \in SeqUpTo(GenreGames, MaxGames) : \E libs \in Deals(all, n) :
              friendsArg = Friends(names, libs)
    /\ detailsArg \in DetailsArgs
    /\ replyArg = NoReply
    /\ nameArg = <<>>
    /\ called = "none"
    /\ returned = <<>>

CallAnalyzeSharedGenres ==
    /\ called = "none"
    /\ called' = "analyzeSharedGenres"
    /\ returned' = analyzeSharedGenres(friendsArg, detailsArg)
    /\ UNCHANGED <<friendsArg, detailsArg, replyArg, nameArg, appVars, historyVars>>

NextGenres == CallAnalyzeSharedGenres

SpecGenres == InitGenres /\ [][NextGenres]_vars

\* Library records for repeated calls: two catalogue entries whose names the
\* keyword table tags, with different playtimes.
RepeatGames ==
    {Game(1, WarQuestName, 1), Game(2, TetrisWarName, 2), Game(2, TetrisWarName, 1)}

\* The same function called a second time on the argument the first call was
\* given.
InitRepeat ==
    /\ AppIdle
    /\ \E n \in 0..MaxFriends : \E all \in SeqUpTo(RepeatGames, MaxGames) :
          \E libs \in Deals(all, n) : friendsArg = NamedFriends(libs)
    /\ detailsArg = NoDetails
    /\ replyArg = NoReply
    /\ nameArg = <<>>
    /\ called = "none"
    /\ returned = <<>>

RepeatFindCommonGames ==
    /\ called = "findCommonGames"
    /\ called' = "findCommonGames again"
    /\ returned' = findCommonGames(friendsArg)
    /\ UNCHANGED <<friendsArg, detailsArg, replyArg, nameArg, appVars, historyVars>>

RepeatFindAlmostMatchedGames ==
    /\ called = "findAlmostMatchedGames"
    /\ called' = "findAlmostMatchedGames again"
    /\ returned' = findAlmostMatchedGames(friendsArg)
    /\ UNCHANGED <<friendsArg, detailsArg, replyArg, nameArg, appVars, historyVars>>

RepeatAnalyzeSharedGenres ==
    /\ called = "analyzeSharedGenres"
    /\ called' = "analyzeSharedGenres again"
    /\ returned' = analyzeSharedGenres(friendsArg, detailsArg)
    /\ UNCHANGED <<friendsArg, detailsArg, replyArg, nameArg, appVars, historyVars>>

NextRepeat ==
    \/ CallFindCommonGames
    \/ CallFindAlmostMatchedGames
    \/ CallAnalyzeSharedGenres
    \/ RepeatFindCommonGames
    \/ RepeatFindAlmostMatchedGames
    \/ RepeatAnalyzeSharedGenres

SpecRepeat == InitRepeat /\ [][NextRepeat]_vars

\* The upper-case letter of every lower-case letter.
UpperOf ==
    [c \in Range(LowerCase) |-> UpperCase[CHOOSE k \in 1..Len(LowerCase) : LowerCase[k] = c]]

\* The name with the letters at the given positions in upper case.
Cased(name, upper) ==
    [i \in 1..Len(name) |->
        IF i \in upper /\ name[i] \in DOMAIN UpperOf THEN UpperOf[name[i]] ELSE name[i]]

\* Game names in lower case: one keyword, no keyword, keywords of two genres.
BaseNames ==
    {<<"w", "a", "r">>, <<"c", "h", "e", "s", "s">>,
     <<"c", "o", "-", "o", "p", " ", "w", "a", "r">>}

\* The names in every letter case.
CasedNames ==
    UNION {{Cased(name, upper) : upper \in SUBSET (1..Len(name))} : name \in BaseNames}

\* The inference of genres from a game name, by inferGenresFromName itself
\* and as analyzeSharedGenres calls it, on the lower-cased name.
InitInfer ==
    /\ AppIdle
    /\ friendsArg = <<>>
    /\ detailsArg = NoDetails
    /\ replyArg = NoReply
    /\ nameArg \in CasedNames
    /\ called = "none"
    /\ returned = <<>>

CallInferGenresFromName ==
    /\ called = "none"
    /\ called' = "inferGenresFromName"
    /\ returned' = inferGenresFromName(nameArg)
    /\ UNCHANGED <<friendsArg, detailsArg, replyArg, nameArg, appVars, historyVars>>

CallInferOfLowerCase ==
    /\ called = "none"
    /\ called' = "inferGenresFromName of toLowerCase"
    /\ returned' = inferGenresFromName(toLowerCase(nameArg))
    /\ UNCHANGED <<friendsArg, detailsArg, replyArg, nameArg, appVars, historyVars>>

NextInfer == CallInferGenresFromName \/ CallInferOfLowerCase

SpecInfer == InitInfer /\ [][NextInfer]_vars

InitReply ==
    /\ AppIdle
    /\ friendsArg = <<>>
    /\ detailsArg = NoDetails
    /\ replyArg \in Replies
    /\ nameArg = <<>>
    /\ called = "none"
    /\ returned = <<>>

CallHandleReply ==
    /\ called = "none"
    /\ called' = "HandleReply"
    /\ returned' = HandleReply(replyArg)
    /\ UNCHANGED <<friendsArg, detailsArg, replyArg, nameArg, appVars, historyVars>>

NextReply == CallHandleReply

SpecReply == InitReply /\ [][NextReply]_vars

\* ------------------------------------------------------------------------
\* Properties of findCommonGames
\* ------------------------------------------------------------------------

\* The first record of an appid in a library.
FirstRecord(games, appId) ==
    games[CHOOSE k \in 1..Len(games) :
              /\ games[k].appid = appId
              /\ \A j \in 1..(k - 1) : games[j].appid # appId]

\* The set of appids a friend's library lists.
OwnedAppIds(friend) == {friend.games[k].appid : k \in 1..Len(friend.games)}

ReturnedAppIds == {returned[i].appid : i \in 1..Len(returned)}

\* The playtime a friend has for an appid: that of the friend's record of it
\* (the first one, should the library list the appid more than once).
PlaytimeFor(friend, appId) ==
    LET k == CHOOSE k \in 1..Len(friend.games) :
                 /\ friend.games[k].appid = appId
                 /\ \A j \in 1..(k - 1) : friend.games[j].appid # appId
    IN  friend.games[k].playtime_forever

RECURSIVE PlaytimeSum(_, _, _)
PlaytimeSum(friends, appId, n) ==
    IF n = 0 THEN 0
    ELSE PlaytimeSum(friends, appId, n - 1) + PlaytimeFor(friends[n], appId)

\* r is total / n rounded to the nearest integer.
IsRounded(r, total, n) == n * (2 * r - 1) <= 2 * total /\ 2 * total < n * (2 * r + 1)

\* C1: for a nonempty friend list, the appids of the games findCommonGames
\* returns are exactly the appids that every friend's library lists.
C1_CommonIsIntersection ==
    (called = "findCommonGames" /\ Len(friendsArg) >= 1) =>
        ReturnedAppIds =
            {a \in OwnedAppIds(friendsArg[1]) :
                \A i \in 1..Len(friendsArg) : a \in OwnedAppIds(friendsArg[i])}

\* C1 witness: three friends, a common game returned, and a game of the first
\* friend left out because another friend does not own it.
C1_Witness ==
    /\ called = "findCommonGames"
    /\ Len(friendsArg) = 3
    /\ returned # <<>>
    /\ OwnedAppIds(friendsArg[1]) \ ReturnedAppIds # {}

\* C3 (as claimed): with exactly one friend, findCommonGames returns one entry
\* per game of the library, each with ownerCount = 1 and totalPlaytime =
\* averagePlaytime = the game's own playtime.
C3_SingleFriendWrapped ==
    (called = "findCommonGames" /\ Len(friendsArg) = 1) =>
        /\ Len(returned) = Len(friendsArg[1].games)
        /\ \A i \in 1..Len(returned) :
              /\ returned[i].appid = friendsArg[1].games[i].appid
              /\ {"ownerCount", "totalPlaytime", "averagePlaytime"} \subseteq DOMAIN returned[i]
              /\ returned[i].ownerCount = 1
              /\ returned[i].totalPlaytime = friendsArg[1].games[i].playtime_forever
              /\ returned[i].averagePlaytime = friendsArg[1].games[i].playtime_forever

\* C6: with two or more friends, every returned game has totalPlaytime = the
\* sum of the friends' playtimes for its appid, averagePlaytime = that total
\* divided by the number of friends and rounded, ownerCount = the number of
\* friends, and a name under which the first friend's library lists the appid.
C6_PlaytimeTotals ==
    (called = "findCommonGames" /\ Len(friendsArg) >= 2) =>
        \A i \in 1..Len(returned) :
            LET e == returned[i]
                n == Len(friendsArg)
            IN  /\ e.totalPlaytime = PlaytimeSum(friendsArg, e.appid, n)
                /\ IsRounded(e.averagePlaytime, e.totalPlaytime, n)
                /\ e.ownerCount = n
                /\ \E k \in 1..Len(friendsArg[1].games) :
                      /\ friendsArg[1].games[k].appid = e.appid
                      /\ friendsArg[1].games[k].name = e.name

\* C6 witness: two friends with different playtimes for a common game whose
\* total is odd, so that the average is a rounded half.
C6_Witness ==
    /\ called = "findCommonGames"
    /\ Len(friendsArg) = 2
    /\ \E i \in 1..Len(returned) :
          /\ returned[i].totalPlaytime = 3
          /\ returned[i].averagePlaytime = 2

\* The total playtime of a returned entry; an entry that has no totalPlaytime
\* is read with the game's own playtime.
TotalOf(e) ==
    IF "totalPlaytime" \in DOMAIN e THEN e.totalPlaytime ELSE e.playtime_forever

\* The position at which the first friend's library first lists an appid.
FirstSeen(appId) ==
    CHOOSE k \in 1..Len(friendsArg[1].games) :
        /\ friendsArg[1].games[k].appid = appId
        /\ \A j \in 1..(k - 1) : friendsArg[1].games[j].appid # appId

\* C7 (as claimed): for a friend list of any size, the returned sequence is
\* in non-increasing order of total playtime, and entries with equal total
\* playtime are in the order in which the library lists them.
C7_SortedByTotal ==
    called = "findCommonGames" =>
        \A i, j \in 1..Len(returned) :
            i < j =>
                \/ TotalOf(returned[i]) > TotalOf(returned[j])
                \/ /\ TotalOf(returned[i]) = TotalOf(returned[j])
                   /\ FirstSeen(returned[i].appid) <= FirstSeen(returned[j].appid)

\* ------------------------------------------------------------------------
\* Properties of findAlmostMatchedGames
\* ------------------------------------------------------------------------

\* The friends (positions in the list) whose library lists an appid.
OwnersOf(appId) == {i \in 1..Len(friendsArg) : appId \in OwnedAppIds(friendsArg[i])}

\* C4 (as claimed): for at least 3 friends, findAlmostMatchedGames returns one
\* entry per distinct appid, and exactly for the appids that all friends but
\* exactly one own, whatever the libraries repeat and the friends are called.
C4_AlmostIsAllButOne ==
    (called = "findAlmostMatchedGames" /\ Len(friendsArg) >= 3) =>
        /\ \A i, j \in 1..Len(returned) :
              returned[i].appid = returned[j].appid => i = j
        /\ ReturnedAppIds =
              {a \in UNION {OwnedAppIds(friendsArg[i]) : i \in 1..Len(friendsArg)} :
                  Cardinality(OwnersOf(a)) = Len(friendsArg) - 1}

\* C16: for fewer than 3 friends findAlmostMatchedGames returns the empty
\* sequence, whatever the libraries hold.
C16_EmptyBelowThree ==
    (called = "findAlmostMatchedGames" /\ Len(friendsArg) < 3) => returned = <<>>

\* C16 witness: two friends and a game that only one of them owns, which is
\* all friends but one.
C16_Witness ==
    /\ called = "findAlmostMatchedGames"
    /\ Len(friendsArg) = 2
    /\ \E a \in OwnedAppIds(friendsArg[1]) : a \notin OwnedAppIds(friendsArg[2])
    /\ returned = <<>>

\* The first friend, in input order, whose library lists an appid.
FirstOwner(appId) ==
    CHOOSE i \in OwnersOf(appId) : \A j \in OwnersOf(appId) : i <= j

\* The record that represents an appid: the first record of it in the
\* library of its first owner.
Representing(appId) == FirstRecord(friendsArg[FirstOwner(appId)].games, appId)

\* The scan of the friends and their libraries encounters appid a before
\* appid b.
EncounteredBefore(a, b) ==
    \/ FirstOwner(a) < FirstOwner(b)
    \/ /\ FirstOwner(a) = FirstOwner(b)
       /\ \E k \in 1..Len(friendsArg[FirstOwner(a)].games) :
             /\ friendsArg[FirstOwner(a)].games[k].appid = a
             /\ \A m \in 1..k : friendsArg[FirstOwner(a)].games[m].appid # b

\* C20: every entry findAlmostMatchedGames returns carries the name and the
\* playtime of the record that represents its appid, the entries are in
\* non-increasing order of that playtime, and of two entries with equal
\* playtime the one encountered first comes first.
C20_SortedByPlaytime ==
    called = "findAlmostMatchedGames" =>
        /\ \A i \in 1..Len(returned) :
              /\ returned[i].playtime_forever =
                     Representing(returned[i].appid).playtime_forever
              /\ returned[i].name = Representing(returned[i].appid).name
        /\ \A i, j \in 1..Len(returned) :
              i < j =>
                  /\ returned[i].playtime_forever >= returned[j].playtime_forever
                  /\ returned[i].playtime_forever = returned[j].playtime_forever
                        => EncounteredBefore(returned[i].appid, returned[j].appid)

\* C20 witness: three friends, two games returned, and the game encountered
\* second returned first because its representing record has the longer
\* playtime, although a later owner played the other game longer.
C20_Witness ==
    /\ called = "findAlmostMatchedGames"
    /\ Len(friendsArg) = 3
    /\ Len(returned) = 2
    /\ EncounteredBefore(returned[2].appid, returned[1].appid)
    /\ returned[1].playtime_forever > returned[2].playtime_forever
    /\ \E f \in 1..3 : \E k \in 1..Len(friendsArg[f].games) :
          /\ friendsArg[f].games[k].appid = returned[2].appid
          /\ friendsArg[f].games[k].playtime_forever > returned[2].playtime_forever

\* C5 (as claimed): in every entry findAlmostMatchedGames returns, owners and
\* missingOwners together number the friends, owners and ownerCount are the
\* number of friends minus 1, and exactly one friend is missing.
C5_OwnersPlusMissing ==
    called = "findAlmostMatchedGames" =>
        \A i \in 1..Len(returned) :
            /\ Len(returned[i].owners) + Len(returned[i].missingOwners) = Len(friendsArg)
            /\ Len(returned[i].owners) = Len(friendsArg) - 1
            /\ returned[i].ownerCount = Len(friendsArg) - 1
            /\ Len(returned[i].missingOwners) = 1

\* ------------------------------------------------------------------------
\* Properties of analyzeSharedGenres
\* ------------------------------------------------------------------------

\* The genres a game is tagged with: those of its details and those the
\* keyword table finds in its name.
TagsOf(game) ==
    (IF ~detailsArg.isNull /\ game.appid \in DOMAIN detailsArg.map
     THEN Range(detailsArg.map[game.appid]) ELSE {})
    \cup Range(inferGenresFromName(toLowerCase(game.name)))

\* The games (positions in the library) of a friend tagged with a genre.
TaggedGames(friend, genre) ==
    {k \in 1..Len(friend.games) : genre \in TagsOf(friend.games[k])}

\* The friends (positions in the list) with at least one game tagged.
FriendsWith(genre) ==
    {i \in 1..Len(friendsArg) : TaggedGames(friendsArg[i], genre) # {}}

RECURSIVE TaggedGameCount(_, _)
TaggedGameCount(genre, n) ==
    IF n = 0 THEN 0
    ELSE TaggedGameCount(genre, n - 1) + Cardinality(TaggedGames(friendsArg[n], genre))

\* C2 (as claimed): the count of every returned genre is the number of games
\* tagged with the genre across the friends' libraries.
C2_CountIsGames ==
    called = "analyzeSharedGenres" =>
        \A i \in 1..Len(returned) :
            returned[i].count = TaggedGameCount(returned[i].genre, Len(friendsArg))

\* C2 (amended): the count of every returned genre is the number of friends
\* that have at least one game tagged with the genre.
C2_CountIsFriends ==
    called = "analyzeSharedGenres" =>
        \A i \in 1..Len(returned) :
            returned[i].count = Cardinality(FriendsWith(returned[i].genre))

\* C2 witness: two friends who each own two different games tagged with a
\* returned genre: four tagged games, count 2.
C2_Witness ==
    /\ called = "analyzeSharedGenres"
    /\ Len(friendsArg) = 2
    /\ \A f \in 1..2 : Cardinality(OwnedAppIds(friendsArg[f])) = 2
    /\ \E i \in 1..Len(returned) :
          /\ \A f \in 1..2 : Cardinality(TaggedGames(friendsArg[f], returned[i].genre)) = 2
          /\ returned[i].count = 2

\* The tags of a game in the order of the scan: the genres of its details,
\* then the genres the keyword table finds in its name, in table order.
TagList(game) ==
    (IF ~detailsArg.isNull /\ game.appid \in DOMAIN detailsArg.map
     THEN detailsArg.map[game.appid] ELSE <<>>)
    \o inferGenresFromName(toLowerCase(game.name))

\* The tags in the order of the scan of the friends and their games.
Scan ==
    Concat([i \in 1..Len(friendsArg) |->
               Concat([k \in 1..Len(friendsArg[i].games) |->
                          TagList(friendsArg[i].games[k])])])

\* The position at which the scan first sees a genre.
FirstSeenAt(scan, genre) ==
    CHOOSE t \in 1..Len(scan) :
        scan[t] = genre /\ \A u \in 1..(t - 1) : scan[u] # genre

\* C18: the genres analyzeSharedGenres returns are in non-increasing order of
\* count, and of two genres with equal count the one first seen in the scan
\* of the friends and their games comes first.
C18_SortedByCount ==
    called = "analyzeSharedGenres" =>
        LET scan == Scan
        IN  \A i, j \in 1..Len(returned) :
                i < j =>
                    /\ returned[i].count >= returned[j].count
                    /\ returned[i].count = returned[j].count
                          => FirstSeenAt(scan, returned[i].genre)
                                 < FirstSeenAt(scan, returned[j].genre)

\* C18 witness: two friends share Puzzle and Adventure, and Puzzle, which
\* the keyword table lists after Adventure, is returned before it because
\* the first friend's library lists its game first.
C18_Witness ==
    /\ called = "analyzeSharedGenres"
    /\ Len(friendsArg) = 2
    /\ \E i, j \in 1..Len(returned) :
          /\ i < j
          /\ returned[i].genre = "Puzzle"
          /\ returned[j].genre = "Adventure"

\* C8: every friend of the input has a game tagged with every returned
\* genre, and the friends of a returned genre are all the friends' names.
C8_SharedByAll ==
    called = "analyzeSharedGenres" =>
        \A i \in 1..Len(returned) :
            /\ FriendsWith(returned[i].genre) = 1..Len(friendsArg)
            /\ Range(returned[i].friends) = {friendsArg[f].name : f \in 1..Len(friendsArg)}

\* C8 witness: three friends, a genre returned, and a genre that only some
\* of the friends have, left out.
C8_Witness ==
    /\ called = "analyzeSharedGenres"
    /\ Len(friendsArg) = 3
    /\ returned # <<>>
    /\ \E g \in {"Action", "Adventure", "Puzzle", "Indie"} :
          /\ FriendsWith(g) # {}
          /\ \A i \in 1..Len(returned) : returned[i].genre # g

\* C9 (as claimed): every genre for which every friend of a nonempty list has
\* a tagged game is returned, whatever the friends are called.
C9_EverySharedGenreReturned ==
    (called = "analyzeSharedGenres" /\ Len(friendsArg) >= 1) =>
        \A g \in {"Action", "Adventure", "Puzzle", "Indie"} :
            FriendsWith(g) = 1..Len(friendsArg) =>
                \E i \in 1..Len(returned) : returned[i].genre = g

\* ------------------------------------------------------------------------
\* Properties of the recommendation request
\* ------------------------------------------------------------------------

\* The first n elements of a sequence, or all of it if it is shorter.
FirstN(s, n) == [i \in 1..(IF Len(s) < n THEN Len(s) ELSE n) |-> s[i]]

\* C10: whenever handleGetAIRecommendations sends a request, its common_games
\* are the names of the first 10 stored common games (all, if there are
\* fewer) and its shared_genres the first 5 stored shared genres, in the
\* stored order; so they never number more than 10 and 5.
C10_RequestCapped ==
    [][(aiRequest = <<>> /\ aiRequest' # <<>>) =>
          LET body == aiRequest'[1]
              games == FirstN(lastCommonGames, 10)
              genres == FirstN(lastSharedGenres, 5)
          IN  /\ Len(body.common_games) <= 10
              /\ Len(body.shared_genres) <= 5
              /\ body.common_games = [i \in 1..Len(games) |-> games[i].name]
              /\ body.shared_genres = [i \in 1..Len(genres) |-> genres[i].genre]]_vars

\* C10 witness: a request sent while more than 10 common games and more than
\* 5 shared genres are stored, with 10 games and 5 genres in it.
C10_Witness ==
    /\ aiRequest # <<>>
    /\ Len(lastCommonGames) > 10
    /\ Len(lastSharedGenres) > 5
    /\ Len(aiRequest[1].common_games) = 10
    /\ Len(aiRequest[1].shared_genres) = 5

\* ------------------------------------------------------------------------
\* Properties of findCommonGames on malformed libraries
\* ------------------------------------------------------------------------

\* The playtime of a record with a negative or missing playtime read as 0.
NormalizedPlaytime(game) ==
    IF "playtime_forever" \in DOMAIN game /\ game.playtime_forever > 0
    THEN game.playtime_forever ELSE 0

RECURSIVE NormalizedSum(_, _, _)
NormalizedSum(friends, appId, n) ==
    IF n = 0 THEN 0
    ELSE NormalizedSum(friends, appId, n - 1)
         + NormalizedPlaytime(FirstRecord(friends[n].games, appId))

\* C14 (as claimed): for two or more friends whose libraries have records
\* with a negative or missing playtime, the totalPlaytime of every game
\* findCommonGames returns is the sum of the friends' playtimes with the
\* negative and the missing ones counted as 0: never negative, never NaN.
C14_PlaytimeNormalized ==
    (called = "findCommonGames" /\ Len(friendsArg) >= 2) =>
        \A i \in 1..Len(returned) :
            /\ returned[i].totalPlaytime # NaN
            /\ returned[i].totalPlaytime >= 0
            /\ returned[i].totalPlaytime =
                   NormalizedSum(friendsArg, returned[i].appid, Len(friendsArg))

\* ------------------------------------------------------------------------
\* Properties of repeated calls
\* ------------------------------------------------------------------------

\* The second calls.
Again == {"findCommonGames again", "findAlmostMatchedGames again",
          "analyzeSharedGenres again"}

MatchesSchema(data) ==
    /\ {"success", "recommendations"} \subseteq DOMAIN data
    /\ \A i \in 1..Len(data.recommendations) :
          DOMAIN data.recommendations[i] = EntryKeys

\* A reply received with status 200 and a JSON body.
Received == called = "HandleReply" /\ replyArg.ok /\ replyArg.isJson

\* C11 (as claimed): a received reply that has success = false, or whose
\* shape does not match the schema, makes the handling fail with an error
\* and produce no recommendations; the error raised for a reply that has
\* success = false and reports an error message carries exactly that message.
C11_MalformedReplyFails ==
    Received =>
        LET data == replyArg.data
            failure == "success" \in DOMAIN data /\ ~data.success
        IN  /\ (failure \/ ~MatchesSchema(data)) => returned.threw
            /\ (failure /\ "error" \in DOMAIN data /\ data.error # "")
                  => returned.message = <<data.error>>

\* A well-formed successful reply.
WellFormed(reply) ==
    /\ reply.ok
    /\ reply.isJson
    /\ MatchesSchema(reply.data)
    /\ reply.data.success

\* C12: for a well-formed successful reply the handling yields one result
\* per entry of recommendations, in the same order, with name, price,
\* overview, reason and tags copied and player_count under the name
\* playerCount.
C12_OnePerEntry ==
    (called = "HandleReply" /\ WellFormed(replyArg)) =>
        /\ ~returned.threw
        /\ Len(returned.recommendations) = Len(replyArg.data.recommendations)
        /\ \A i \in 1..Len(returned.recommendations) :
              LET result == returned.recommendations[i]
                  entry == replyArg.data.recommendations[i]
              IN  /\ DOMAIN result = {"name", "price", "overview", "reason",
                                      "playerCount", "tags"}
                  /\ result.name = entry.name
                  /\ result.price = entry.price
                  /\ result.overview = entry.overview
                  /\ result.reason = entry.reason
                  /\ result.tags = entry.tags
                  /\ result.playerCount = entry.player_count

\* C12 witness: a well-formed reply with two different entries, handled.
C12_Witness ==
    /\ called = "HandleReply"
    /\ WellFormed(replyArg)
    /\ replyArg.data.recommendations = <<RecStardew, RecDeepRock>>
    /\ Len(returned.recommendations) = 2
    /\ returned.recommendations[1].playerCount = "1-8"
    /\ returned.recommendations[2].playerCount = "1-4"

\* ------------------------------------------------------------------------
\* Properties of the roster
\* ------------------------------------------------------------------------

\* The pending friend is already in the roster.
PendingIsDuplicate ==
    pendingFriend # <<>> /\ hasFriend(roster, pendingFriend[1].steamId)

\* C13: no two friends of the roster have the same steamId, and adding a
\* pending friend whose steamId is already in the roster leaves the roster
\* and the selection as they are.
C13_UniqueIds ==
    /\ [](\A i, j \in 1..Len(roster) :
             roster[i].steamId = roster[j].steamId => i = j)
    /\ [][(PendingIsDuplicate /\ ConfirmAdd) => UNCHANGED <<roster, selected>>]_vars

\* C13 witness: a friend of the roster, deselected, is offered again by a
\* search that had resolved before the friend was added.
C13_Witness ==
    /\ PendingIsDuplicate
    /\ Len(roster) = 2
    /\ pendingFriend[1].steamId \notin selected

\* ------------------------------------------------------------------------
\* Properties of handleFindMatches
\* ------------------------------------------------------------------------

\* Fewer than 2 friends are selected.
TooFewSelected == Len(getSelectedFriends(roster, selected)) < 2

\* C15: with fewer than 2 selected friends no results are shown, and
\* handleFindMatches leaves the stored results of the last match, the
\* results section and the recommendations panel as they are.
C15_FindMatchesRefused ==
    /\ [](TooFewSelected => ~resultsShown)
    /\ [][(TooFewSelected /\ FindMatches) =>
             /\ UNCHANGED <<lastCommonGames, lastSharedGenres, resultsShown, aiPanel>>
             /\ ~resultsShown']_vars

\* C15 witness: one friend selected while the results of an earlier match of
\* two friends are stored.
C15_Witness ==
    /\ Len(getSelectedFriends(roster, selected)) = 1
    /\ lastCommonGames # <<>>
    /\ lastSharedGenres # <<>>

\* ------------------------------------------------------------------------
\* Properties of inferGenresFromName
\* ------------------------------------------------------------------------

\* Two characters are the same letter in whatever case, or the same
\* character.
SameLetter(c, d) ==
    \/ c = d
    \/ \E k \in 1..Len(UpperCase) :
          {c, d} = {UpperCase[k], LowerCase[k]}

\* The word occurs in the name, letter case ignored.
ContainsIgnoringCase(name, word) ==
    \E i \in 1..(Len(name) - Len(word) + 1) :
        \A k \in 1..Len(word) : SameLetter(name[i + k - 1], word[k])

\* The genres with a keyword that occurs in the name, letter case ignored.
GenresNamedIn(name) ==
    {keywords[r].genre : r \in {r \in 1..Len(keywords) :
        \E w \in 1..Len(keywords[r].words) :
            ContainsIgnoringCase(name, keywords[r].words[w])}}

\* C19 (as claimed): inferGenresFromName returns, for a name in any letter
\* case, exactly the genres that have a keyword occurring in the name.
C19_InferIgnoresCase ==
    called = "inferGenresFromName" => Range(returned) = GenresNamedIn(nameArg)

\* C19 (amended): inferGenresFromName applied to the lower-cased name, as
\* analyzeSharedGenres applies it, returns for a name in any letter case
\* exactly the genres that have a keyword occurring in the name.
C19_LowerCasedInferIgnoresCase ==
    called = "inferGenresFromName of toLowerCase" =>
        Range(returned) = GenresNamedIn(nameArg)

\* C19 witness: a name with upper-case letters inside both of its keywords,
\* and both genres returned.
C19_Witness ==
    /\ called = "inferGenresFromName of toLowerCase"
    /\ nameArg = <<"C", "o", "-", "O", "P", " ", "W", "a", "R">>
    /\ returned = <<"Action", "Multiplayer">>

\* ------------------------------------------------------------------------
\* Properties of the page with its history
\* ------------------------------------------------------------------------

\* handleGetAIRecommendations sends a request in this step.
SendsRequest == aiRequest = <<>> /\ aiRequest' # <<>>

\* C21: whenever handleGetAIRecommendations sends a request, a match has
\* been computed before, and the stored results the request sends were
\* computed by handleFindMatches from exactly the friends whose names it
\* sends, the selected friends.
C21_RequestOfCurrentMatch ==
    [][SendsRequest =>
          /\ matchedFriends # <<>>
          /\ Range(matchedFriends[1]) =
                 Range(RosterIds(getSelectedFriends(roster, selected)))]_vars

\* C23: once no handleSearchFriend call awaits the profile service any more,
\* the pending friend, if there is one, is the result of the call started
\* last and is not a friend of the roster: the late result of an earlier call
\* has not replaced it, and no friend added meanwhile is offered again.
C23_LatestSearchWins ==
    (searches = <<>> /\ pendingFriend # <<>>) =>
        /\ latestSearch # <<>>
        /\ pendingFriend[1].steamId = latestSearch[1]
        /\ ~hasFriend(roster, pendingFriend[1].steamId)

\* The reply of the request awaiting it is handled in this step.
HandlesReply == aiRequest # <<>> /\ aiRequest' = <<>>

\* C24: once handleFindMatches has reset the recommendations panel, the reply
\* of a request that was sent before that match is not rendered: handling it
\* leaves the panel as it is.
C24_StaleReplyNotRendered ==
    [][(HandlesReply /\ staleRequest) => aiPanel' = aiPanel]_vars

\* ------------------------------------------------------------------------
\* Properties of the FriendsManager methods
\* ------------------------------------------------------------------------

\* C22: after any calls of addFriend, removeFriend, toggleSelection and load,
\* whatever their arguments, every selected id is the id of a friend in the
\* roster, getSelectedCount() is the number of selected friends, and the match
\* section is shown exactly when handleFindMatches accepts the selection.
C22_SelectedAreFriends ==
    LET friends == getSelectedFriends(roster, selected)
    IN  /\ selected \subseteq Range(RosterIds(roster))
        /\ getSelectedCount(selected) = Len(friends)
        /\ MatchSectionShown(selected) <=> ~(Len(friends) < 2)

====
